---- MODULE Spec2Model ----
(***************************************************************************)
(* Model of run_notebooks.py: the single-document executor `execute` and   *)
(* the batch driver under `if __name__ == '__main__'`.                     *)
(*                                                                         *)
(* A path is a sequence of tokens.  The tokens are "." and "/" and words   *)
(* without a dot ("ipynb", "nbconvert", "d", "e", "a", "b"), so that the   *)
(* Python string '.ipynb' is the two-token sequence <<".", "ipynb">> and   *)
(* str.replace / str.endswith / glob work on token sequences exactly as    *)
(* they work on the characters: no word contains a dot and no word other   *)
(* than "ipynb" begins with the letters ipynb, so a character-level match  *)
(* of '.ipynb' is always a token-level match.                              *)
(***************************************************************************)
EXTENDS Integers, Sequences, FiniteSets, TLC

VARIABLES
    fs,         \* the file tree: path -> notebook document stored there
    pc,         \* "idle": no process yet; "loop": the driver is in its loop;
                \* "exited" / "crashed": the driver ended by sys.exit / by an
                \* uncaught exception; "returned": a library call has ended
    nbfns,      \* the driver's list of discovered notebooks
    idx,        \* the driver's position in nbfns (next to visit)
    succeeded,  \* the driver's accumulator
    status,     \* the process exit status (NoStatus while running)
    stdout,     \* what the current process has printed
    calls,      \* history: the execute calls made by the current driver run
    last,       \* history: the most recent call of execute by any caller
    written     \* history: paths written by driver runs that have ended

vars == <<fs, pc, nbfns, idx, succeeded, status, stdout, calls, last, written>>

\* ---------------------------------------------------------------- bounds
MaxFiles == 2      \* files in the initial tree

\* ---------------------------------------------------------------- strings
DotIpynb == <<".", "ipynb">>
DotNbconvertIpynb == <<".", "nbconvert", ".", "ipynb">>

\* s.startswith(p) at position i
MatchAt(s, i, p) ==
    /\ i + Len(p) - 1 <= Len(s)
    /\ \A k \in 1..Len(p) : s[i + k - 1] = p[k]

\* Python str.endswith
EndsWith(s, suf) ==
    /\ Len(suf) <= Len(s)
    /\ MatchAt(s, Len(s) - Len(suf) + 1, suf)

\* Python str.replace(old, new): every non-overlapping occurrence, left to right
RECURSIVE Replace(_, _, _)
Replace(s, old, new) ==
    IF Len(s) < Len(old) THEN s
    ELSE IF MatchAt(s, 1, old)
         THEN new \o Replace(SubSeq(s, Len(old) + 1, Len(s)), old, new)
         ELSE <<s[1]>> \o Replace(Tail(s), old, new)

\* positions of the path separator
Slashes(p) == {i \in 1..Len(p) : p[i] = "/"}

\* os.path.split(p)[0]: everything before the last separator
DirName(p) ==
    IF Slashes(p) = {} THEN <<>>
    ELSE LET k == CHOOSE i \in Slashes(p) : \A j \in Slashes(p) : j <= i
         IN SubSeq(p, 1, k - 1)

\* os.path.split(p)[1]
BaseName(p) ==
    IF Slashes(p) = {} THEN p
    ELSE LET k == CHOOSE i \in Slashes(p) : \A j \in Slashes(p) : j <= i
         IN SubSeq(p, k + 1, Len(p))

\* ---------------------------------------------------------------- file tree
Paths == { <<"d", "/", "a", ".", "ipynb">>,
           <<"d", "/", "b", ".", "ipynb">>,
           <<"d", "/", "a", ".", "nbconvert", ".", "ipynb">>,
           <<"d", "/", "a", ".", "ipynb", ".", "ipynb">>,
           <<"d", ".", "ipynb", "/", "a", ".", "ipynb">>,
           <<"d", "/", "a">>,
           <<"d", "/", ".", "ipynb">>,
           <<"a", ".", "ipynb">>,
           <<"d", "/", "e", "/", "a", ".", "ipynb">> }

\* what a notebook document is, as far as the executor can tell:
\*   "ok"        every cell runs
\*   "cellfail"  some cell raises: the engine raises CellExecutionError
\*   "timeout"   the engine raises another exception (timeout, dead kernel)
\*   "malformed" nbformat.read raises
Kinds == {"ok", "cellfail", "timeout", "malformed"}

\* the cell outputs stored in a document
Outputs == {"none", "full", "partial"}

Docs == [kind : Kinds, outputs : Outputs]

\* the directories that exist: those holding a file
Dirs(tree) == { DirName(p) : p \in DOMAIN tree }

\* ---------------------------------------------------------------- execute
\* mutant of NbOutFn: the pattern is misspelt and never matches
NbOutFnTypo(nb_in_fn) == Replace(nb_in_fn, <<".", "ipnb">>, DotNbconvertIpynb)

\* line 10: nb_out_fn = nb_in_fn.replace('.ipynb', '.nbconvert.ipynb')
NbOutFn(nb_in_fn) == Replace(nb_in_fn, DotIpynb, DotNbconvertIpynb)

\* lines 12-13: open(nb_in_fn) raises when the file is missing, nbformat.read
\* raises when the document is malformed; neither is inside the try
ReadRaises(tree, nb_in_fn) ==
    \/ nb_in_fn \notin DOMAIN tree
    \/ tree[nb_in_fn].kind = "malformed"

\* line 19: ep.preprocess(nb, ...) runs the cells of nb in place and signals
\* "ok", "cell_error" (CellExecutionError) or "other" (any other exception)
Preprocess(nb) ==
    CASE nb.kind = "ok"       -> [signal |-> "ok",
                                   nb |-> [nb EXCEPT !.outputs = "full"]]
      [] nb.kind = "cellfail" -> [signal |-> "cell_error",
                                   nb |-> [nb EXCEPT !.outputs = "partial"]]
      [] OTHER                -> [signal |-> "other",
                                   nb |-> [nb EXCEPT !.outputs = "partial"]]

\* mutant of Caught: `except Exception` catches every signal of the engine
CaughtAny(signal) == signal \in {"cell_error", "other"}

\* line 20: except CellExecutionError: the only signal the handler catches
Caught(signal) == signal = "cell_error"

\* lines 22-23: the two prints of the handler
ErrorReport(nb_in_fn) ==
    << [line |-> "error", path |-> nb_in_fn],
       [line |-> "traceback", path |-> nb_in_fn] >>

\* mutant of WriteReached: the write follows the try statement instead of
\* sitting in its finally clause, so a propagating exception skips it
WriteAfterTry(signal) == signal \in {"ok", "cell_error"}

\* lines 25-27: the finally clause runs for every outcome of the try block
WriteReached(signal) == signal \in {"ok", "cell_error", "other"}

\* line 26: open(nb_out_fn, mode='wt') needs the directory of nb_out_fn to
\* exist; the environment (permissions, disk) may also refuse: writable
WriteRaises(tree, nb_out_fn, writable) ==
    \/ DirName(nb_out_fn) \notin Dirs(tree)
    \/ ~writable

\* mutant of ReturnValue: the flag is returned without the negation
ReturnsFailed(failed) == failed

\* line 29: return not failed
ReturnValue(failed) == ~failed

\* the file tree with doc stored at path
Store(tree, path, doc) ==
    [p \in DOMAIN tree \cup {path} |-> IF p = path THEN doc ELSE tree[p]]

NoDoc == [kind |-> "none", outputs |-> "none"]

NoCall == [nb_in_fn |-> <<>>, nb_out_fn |-> <<>>, run_path |-> <<>>,
           read |-> "none", signal |-> "none", printed |-> <<>>,
           write |-> "none", nb |-> NoDoc, ret |-> "none", before |-> NoDoc]

\* lines 9-29: one call of execute on the file tree `tree`; `writable` is the
\* environment's answer to the write.  kernel_name and the timeout of line 15
\* configure the engine only: what the engine does with a document is the
\* document's kind.  The result records what the call did:
\*   read    "ok" | "raised"           lines 12-13
\*   signal  of the engine             line 19 ("none": not reached)
\*   printed the lines printed         lines 22-23
\*   write   "ok" | "raised" | "none"  lines 26-27 ("none": not attempted)
\*   nb      the document handed to nbformat.write
\*   ret     "true" | "false" | "raised": how control left execute
\*   before  the input file's content when the call began
\*   tree    the file tree afterwards
Execute(tree, nb_in_fn, run_path, writable) ==
    LET nb_out_fn == NbOutFn(nb_in_fn)
        base == [NoCall EXCEPT !.nb_in_fn = nb_in_fn,
                               !.nb_out_fn = nb_out_fn,
                               !.run_path = run_path]
    IN  IF ReadRaises(tree, nb_in_fn)
        THEN [call |-> [base EXCEPT !.read = "raised", !.ret = "raised",
                          !.before = IF nb_in_fn \in DOMAIN tree
                                     THEN tree[nb_in_fn] ELSE NoDoc],
              tree |-> tree]
        ELSE
        LET out == Preprocess(tree[nb_in_fn])
            failed == Caught(out.signal)
            printed == IF Caught(out.signal) THEN ErrorReport(nb_in_fn)
                       ELSE <<>>
            attempt == WriteReached(out.signal)
            wraised == attempt /\ WriteRaises(tree, nb_out_fn, writable)
            propagates == out.signal # "ok" /\ ~Caught(out.signal)
            ret == IF wraised \/ propagates THEN "raised"
                   ELSE IF ReturnValue(failed) THEN "true" ELSE "false"
        IN  [call |-> [base EXCEPT
                          !.read = "ok",
                          !.signal = out.signal,
                          !.printed = printed,
                          !.write = IF ~attempt THEN "none"
                                    ELSE IF wraised THEN "raised" ELSE "ok",
                          !.nb = IF attempt THEN out.nb ELSE NoDoc,
                          !.ret = ret,
                          !.before = tree[nb_in_fn]],
             tree |-> IF attempt /\ ~wraised
                      THEN Store(tree, nb_out_fn, out.nb) ELSE tree]

\* ---------------------------------------------------------------- driver
\* line 39: glob('*/*.ipynb'): one directory level, neither component hidden
\* (a leading dot is not matched by *), the file name ends in .ipynb
GlobMatch(p) ==
    /\ Cardinality(Slashes(p)) = 1
    /\ LET d == DirName(p)
           f == BaseName(p)
       IN  /\ d # <<>> /\ d[1] # "."
           /\ f # <<>> /\ f[1] # "."
           /\ EndsWith(f, DotIpynb)

Glob(tree) == { p \in DOMAIN tree : GlobMatch(p) }

\* mutant of Selected: the filter of line 40 is missing
SelectedAll(fn) == TRUE

\* line 40: [fn for fn in nbfns if not fn.endswith('.nbconvert.ipynb')]
Selected(fn) == ~EndsWith(fn, DotNbconvertIpynb)

\* glob gives no order guarantee: any listing of the set
Listings(S) ==
    { q \in [1..Cardinality(S) -> S] : \A i, j \in 1..Cardinality(S) :
                                           q[i] = q[j] => i = j }

\* line 46: nb_dir = os.path.abspath(os.path.join('.', os.path.split(nbfn)[0]))
NbDir(nbfn) == DirName(nbfn)

\* mutant of ExitStatus: the two branches are swapped
ExitStatusSwapped(ok) == IF ~ok THEN 0 ELSE 1

\* lines 49-52: sys.exit(1) if not succeeded else sys.exit(0)
ExitStatus(ok) == IF ~ok THEN 1 ELSE 0

NoStatus == -1
\* an uncaught exception ends the interpreter with status 1
UncaughtStatus == 1

WrittenBy(cs) == { cs[i].nb_out_fn : i \in {j \in 1..Len(cs) : cs[j].write = "ok"} }

InitDocs == [kind : Kinds, outputs : {"none"}]

Init ==
    /\ fs \in UNION { [S -> InitDocs] :
                        S \in {T \in SUBSET Paths : Cardinality(T) <= MaxFiles} }
    /\ pc = "idle"
    /\ nbfns = <<>>
    /\ idx = 1
    /\ succeeded = TRUE
    /\ status = NoStatus
    /\ stdout = <<>>
    /\ calls = <<>>
    /\ last = NoCall
    /\ written = {}

\* lines 39-44: a new process starts the driver: glob, filter, report
Start ==
    /\ pc \in {"idle", "exited", "crashed"}
    /\ \E q \in Listings({fn \in Glob(fs) : Selected(fn)}) :
          /\ nbfns' = q
          /\ stdout' = << [line |-> "list", path |-> q] >>
    /\ succeeded' = TRUE
    /\ idx' = 1
    /\ pc' = "loop"
    /\ status' = NoStatus
    /\ calls' = <<>>
    /\ written' = written \cup WrittenBy(calls)
    /\ UNCHANGED <<fs, last>>

\* lines 45-47, succeeded true: `succeeded and execute(...)` calls execute
LoopCall ==
    /\ pc = "loop"
    /\ idx <= Len(nbfns)
    /\ succeeded
    /\ \E writable \in BOOLEAN :
          LET r == Execute(fs, nbfns[idx], NbDir(nbfns[idx]), writable)
          IN  /\ fs' = r.tree
              /\ calls' = Append(calls, r.call)
              /\ last' = r.call
              /\ stdout' = stdout \o r.call.printed
              /\ IF r.call.ret = "raised"
                 THEN /\ pc' = "crashed"
                      /\ status' = UncaughtStatus
                      /\ UNCHANGED <<succeeded, idx>>
                 ELSE /\ succeeded' = (r.call.ret = "true")
                      /\ idx' = idx + 1
                      /\ UNCHANGED <<pc, status>>
    /\ UNCHANGED <<nbfns, written>>

\* lines 45-47, succeeded false: `and` short-circuits, execute is not called
LoopSkip ==
    /\ pc = "loop"
    /\ idx <= Len(nbfns)
    /\ ~succeeded
    /\ idx' = idx + 1
    /\ UNCHANGED <<fs, pc, nbfns, succeeded, status, stdout, calls, last,
                   written>>

\* lines 49-52: the exit-code decision
Exit ==
    /\ pc = "loop"
    /\ idx > Len(nbfns)
    /\ status' = ExitStatus(succeeded)
    /\ pc' = "exited"
    /\ UNCHANGED <<fs, nbfns, idx, succeeded, stdout, calls, last,
                   written>>

\* lines 9-29: execute imported and called as a library function, on any path
DirectCall ==
    /\ pc = "idle"
    /\ \E fn \in Paths, writable \in BOOLEAN :
          LET r == Execute(fs, fn, <<>>, writable)
          IN  /\ fs' = r.tree
              /\ last' = r.call
              /\ stdout' = r.call.printed
    /\ pc' = "returned"
    /\ UNCHANGED <<nbfns, idx, succeeded, status, calls, written>>

Next == Start \/ LoopCall \/ LoopSkip \/ Exit \/ DirectCall

Spec == Init /\ [][Next]_vars

\* ---------------------------------------------------------------- properties
CallsOn(fn) == { i \in 1..Len(calls) : calls[i].nb_in_fn = fn }

Tracebacks == { i \in 1..Len(stdout) : stdout[i].line = "traceback" }

FailingDocs == { k \in 1..Len(nbfns) : fs[nbfns[k]].kind = "cellfail" }

\* the input path with only its trailing .ipynb replaced
TrailingReplaced(fn) == SubSeq(fn, 1, Len(fn) - Len(DotIpynb)) \o DotNbconvertIpynb

\* C1: when the driver reaches its exit-code decision (every outcome was a
\* success or a cell failure), execute has been called exactly once on each
\* discovered document, also on those listed after a failing one.
C1_EveryDocumentExecutedOnce ==
    pc = "exited" =>
        \A k \in 1..Len(nbfns) : Cardinality(CallsOn(nbfns[k])) = 1

\* C2: when the driver ends by sys.exit, the status is 0 exactly when every
\* discovered document was executed and its call returned true, and it is 1
\* when some call returned false; an empty list exits 0.
C2_ExitCodeIffAllTrue ==
    pc = "exited" =>
        /\ status \in {0, 1}
        /\ status = 0 <=>
              \A k \in 1..Len(nbfns) :
                 \E i \in CallsOn(nbfns[k]) : calls[i].ret = "true"
        /\ (\E i \in 1..Len(calls) : calls[i].ret = "false") => status = 1
        /\ nbfns = <<>> => status = 0

\* a batch of two whose second document fails has exited with 1
C2_Witness ==
    /\ pc = "exited"
    /\ Len(calls) = 2
    /\ calls[1].ret = "true"
    /\ calls[2].ret = "false"
    /\ status = 1

\* C3: whatever the execution step did (returned, raised a cell execution
\* error, raised anything else), the write of the document to the output path
\* was attempted before control left execute; a write that went through left
\* the document at the output path.
C3_WriteAttemptedOnEveryExit ==
    \A c \in {last} \cup {calls[i] : i \in 1..Len(calls)} :
        c.signal \in {"ok", "cell_error", "other"} =>
            /\ c.ret \in {"true", "false", "raised"}
            /\ c.write \in {"ok", "raised"}
            /\ c.nb.outputs \in {"full", "partial"}
            /\ (c = last /\ c.write = "ok") =>
                  /\ c.nb_out_fn \in DOMAIN fs
                  /\ fs[c.nb_out_fn] = c.nb

\* the engine raised a non-cell exception, execute left by raising, and the
\* partially executed document is on disk
C3_Witness ==
    /\ last.signal = "other"
    /\ last.ret = "raised"
    /\ last.write = "ok"
    /\ last.nb_out_fn \in DOMAIN fs
    /\ fs[last.nb_out_fn].outputs = "partial"

\* C4: for an input path ending in .ipynb, the path execute opens for writing
\* is the input path with only that trailing .ipynb replaced, so it lies in
\* the input's directory.
C4_OnlyTrailingSuffixReplaced ==
    (last.write # "none" /\ EndsWith(last.nb_in_fn, DotIpynb)) =>
        /\ last.nb_out_fn = TrailingReplaced(last.nb_in_fn)
        /\ DirName(last.nb_out_fn) = DirName(last.nb_in_fn)

\* C5 as stated: execute returns true exactly when the engine raised no cell
\* execution error; on a cell execution error it prints the path and then the
\* traceback, writes the document to the output path and returns false.
C5_CellErrorReturnsFalse ==
    /\ last.ret \in {"true", "false"} =>
          (last.ret = "true" <=> last.signal # "cell_error")
    /\ last.signal = "cell_error" =>
          /\ last.printed = ErrorReport(last.nb_in_fn)
          /\ last.write = "ok"
          /\ last.ret = "false"

\* C5 amended: execute returns true exactly when the engine raised no cell
\* execution error; on a cell execution error it prints the path and then the
\* traceback and attempts the write of the partially executed document; it
\* returns false when that write goes through, and leaves with the write's
\* exception when the write raises.
C5_CellErrorReturnsFalseUnlessWriteRaises ==
    /\ last.ret \in {"true", "false"} =>
          (last.ret = "true" <=> last.signal # "cell_error")
    /\ last.signal # "cell_error" => last.printed = <<>>
    /\ last.signal = "cell_error" =>
          /\ last.printed = ErrorReport(last.nb_in_fn)
          /\ last.write \in {"ok", "raised"}
          /\ last.nb.outputs = "partial"
          /\ last.write = "ok" =>
                /\ last.ret = "false"
                /\ fs[last.nb_out_fn] = last.nb
          /\ last.write = "raised" => last.ret = "raised"

\* a cell error was reported, the partial document written, false returned
C5_Witness ==
    /\ last.signal = "cell_error"
    /\ last.ret = "false"
    /\ last.write = "ok"
    /\ Len(last.printed) = 2
    /\ last.printed[1].path = last.nb_in_fn

\* C6: an exception other than a cell execution failure (a failing read, a
\* non-cell exception of the engine, a failing write) leaves execute as an
\* exception; in the driver the call that raised is the last call made, the
\* exit-code decision is not reached and the process status is not 0.
C6_OtherExceptionsPropagate ==
    /\ \A c \in {last} \cup {calls[i] : i \in 1..Len(calls)} :
          (c.read = "raised" \/ c.signal = "other" \/ c.write = "raised")
              => c.ret = "raised"
    /\ \A i \in 1..Len(calls) :
          calls[i].ret = "raised" =>
              /\ i = Len(calls)
              /\ pc = "crashed"
              /\ status = UncaughtStatus
              /\ status # 0

\* the first of two documents made the engine raise a non-cell exception: the
\* process is down and the second document was never executed
C6_Witness ==
    /\ pc = "crashed"
    /\ Len(nbfns) = 2
    /\ Len(calls) = 1
    /\ calls[1].signal = "other"
    /\ CallsOn(nbfns[2]) = {}

\* C7: a batch that exits normally has printed as many traceback blocks as
\* it discovered documents with a failing cell, one naming each of them.
C7_OneTracebackPerFailingDocument ==
    pc = "exited" =>
        /\ Cardinality(Tracebacks) = Cardinality(FailingDocs)
        /\ \A k \in FailingDocs :
              \E i \in Tracebacks : stdout[i].path = nbfns[k]

\* C8: every discovered path matches */*.ipynb, does not end in
\* .nbconvert.ipynb, and is none of the files written by an earlier run of the
\* driver; execute is called on discovered paths only.
C8_OutputsNeverSelected ==
    /\ \A k \in 1..Len(nbfns) :
          /\ GlobMatch(nbfns[k])
          /\ ~EndsWith(nbfns[k], DotNbconvertIpynb)
          /\ nbfns[k] \notin written
    /\ \A i \in 1..Len(calls) :
          /\ \E k \in 1..Len(nbfns) : calls[i].nb_in_fn = nbfns[k]
          /\ calls[i].nb_in_fn \notin written

\* a later run is under way over a tree holding an output of an earlier run
\* that the glob pattern matches
C8_Witness ==
    /\ pc = "loop"
    /\ Len(calls) >= 1
    /\ \E w \in written : w \in Glob(fs)

\* C9: the output paths of two distinct discovered documents differ, no
\* output path is the input path of a discovered document, and the calls of a
\* run touch pairwise disjoint files.
C9_OutputPathsDisjoint ==
    /\ \A j, k \in 1..Len(nbfns) :
          /\ j # k => NbOutFn(nbfns[j]) # NbOutFn(nbfns[k])
          /\ NbOutFn(nbfns[j]) # nbfns[k]
    /\ \A i, j \in 1..Len(calls) :
          /\ calls[i].nb_out_fn # calls[j].nb_in_fn
          /\ i # j => /\ calls[i].nb_in_fn # calls[j].nb_in_fn
                      /\ calls[i].nb_out_fn # calls[j].nb_out_fn

\* two documents were executed and both outputs written
C9_Witness ==
    /\ Len(calls) = 2
    /\ calls[1].write = "ok"
    /\ calls[2].write = "ok"

\* C10: a write of execute that goes through never goes to the input path,
\* and the input file holds after the call what it held before.
C10_InputNeverOverwritten ==
    last.write = "ok" =>
        /\ last.nb_out_fn # last.nb_in_fn
        /\ fs[last.nb_in_fn] = last.before

====
